---- MODULE Spec2Model ----
(***************************************************************************)
(* Smart-factory staffing policy (smart_factory/ensembles.py) run by the   *)
(* tick-driven role-resolution engine.  One engine pass per tick: the rule *)
(* instances whose situation holds are sorted by priority (descending),    *)
(* then each one resolves its roles and actuates.                          *)
(***************************************************************************)
EXTENDS Integers, Sequences, FiniteSets

VARIABLES
    shifts,          \* number of Shift components (one per workplace)
    assigned,        \* shift -> set of workers           (Shift.assigned)
    standbys,        \* shift -> set of workers           (Shift.standbys)
    startTime,       \* shift -> tick                     (Shift.startTime)
    endTime,         \* shift -> tick                     (Shift.endTime)
    steps,           \* number of ticks of the run        (CONFIGURATION.steps)
    hasHeadGear,     \* worker -> BOOLEAN                 (Worker.hasHeadGear)
    busArrival,      \* worker -> tick it reaches the factory, or Never
    now,             \* the tick clock                    (helpers.now())
    queue,           \* the instances of this tick still to be processed
    cancelled,       \* shift -> sequence of workers      (Shift.cancelled)
    calledStandbys,  \* shift -> sequence of workers      (Shift.calledStandbys)
    shiftWorkers,    \* shift -> set of workers           (Shift.workers)
    teamRole,        \* shift -> ShiftTeam.workers of this tick's instance
    wpRole,          \* shift -> AccessToWorkPlace.workers
    lateRole,        \* shift -> LateWorkersReplacement.lateWorkers
    standbyRole,     \* shift -> LateWorkersReplacement.standbys
    allowed,         \* the grants of this tick: <<worker, verb, resource>>
    actuated,        \* the instances that actuated on this tick, in order
    skipped,         \* the instances of this tick whose roles did not resolve
    aborted          \* the RuntimeError of LateWorkersReplacement.actuate escaped

config == <<shifts, assigned, standbys, startTime, endTime, steps, hasHeadGear,
            busArrival>>
roster == <<cancelled, calledStandbys, shiftWorkers>>
roles  == <<teamRole, wpRole, lateRole, standbyRole>>
vars   == <<config, roster, roles, now, queue, allowed, actuated, skipped, aborted>>

\* ------------------------------------------------------------- bounds ----
MaxAssigned == 2
MaxStandbys == 2
ShortStart  == 16
ShiftLen    == 2

\* ------------------------------------------------- configuration values --
cancellationBaseline == 10
ScenarioStart        == 480
ScenarioEnd          == 960
ScenarioTeam         == 5
ScenarioHeadGear     == 3
Unbounded            == 99999
BasePriority         == 1
Never                == 0 - 1

Min(a, b) == IF a < b THEN a ELSE b

Range(seq) == {seq[i] : i \in 1..Len(seq)}

\* The component pool, in creation order: per shift its workers, then its
\* standbys.
Workers == UNION {assigned[s] \cup standbys[s] : s \in 1..shifts}

RECURSIVE SetToSeq(_)
SetToSeq(S) ==
    IF S = {} THEN <<>>
    ELSE LET m == CHOOSE x \in S : \A y \in S : x <= y
         IN  <<m>> \o SetToSeq(S \ {m})

Pool == SetToSeq(Workers)

isAtFactory(w) == busArrival[w] # Never /\ busArrival[w] <= now

availableStandbys(s) == standbys[s] \ Range(calledStandbys[s])

\* ------------------------------------------------------------ the rules --
Inst(r, s) == [rule |-> r, shift |-> s]

ShiftTeam_priority(s) == BasePriority

\* Mutant: the child is ordered before its parent.
AccessToFactory_priority_Above(s) == ShiftTeam_priority(s) + 1

AccessToFactory_priority(s) == ShiftTeam_priority(s) - 1

AccessToDispenser_priority(s) == ShiftTeam_priority(s) - 1

AccessToWorkPlace_priority(s) == ShiftTeam_priority(s) - 1

\* Mutant: the replacement is ordered after its parent.
LateWorkersReplacement_priority_Below(s) == ShiftTeam_priority(s) - 1

LateWorkersReplacement_priority(s) == ShiftTeam_priority(s) + 1

priority(i) ==
    CASE i.rule = "ShiftTeam"              -> ShiftTeam_priority(i.shift)
      [] i.rule = "AccessToFactory"        -> AccessToFactory_priority(i.shift)
      [] i.rule = "AccessToDispenser"      -> AccessToDispenser_priority(i.shift)
      [] i.rule = "AccessToWorkPlace"      -> AccessToWorkPlace_priority(i.shift)
      [] i.rule = "LateWorkersReplacement" -> LateWorkersReplacement_priority(i.shift)

ShiftTeam_situation(s, t) == TRUE

\* Mutant: the window is closed at its upper end.
AccessToFactory_situation_Inclusive(s, t) ==
    startTime[s] - 30 < t /\ t <= endTime[s] + 30

AccessToFactory_situation(s, t) == startTime[s] - 30 < t /\ t < endTime[s] + 30

\* Mutant: the window is closed at its lower end.
AccessToDispenser_situation_Inclusive(s, t) == startTime[s] - 15 <= t /\ t < endTime[s]

AccessToDispenser_situation(s, t) == startTime[s] - 15 < t /\ t < endTime[s]

AccessToWorkPlace_situation(s, t) == startTime[s] - 30 < t /\ t < endTime[s] + 30

LateWorkersReplacement_situation(s, t) == startTime[s] - 15 < t /\ t < endTime[s]

situation(i, t) ==
    CASE i.rule = "ShiftTeam"              -> ShiftTeam_situation(i.shift, t)
      [] i.rule = "AccessToFactory"        -> AccessToFactory_situation(i.shift, t)
      [] i.rule = "AccessToDispenser"      -> AccessToDispenser_situation(i.shift, t)
      [] i.rule = "AccessToWorkPlace"      -> AccessToWorkPlace_situation(i.shift, t)
      [] i.rule = "LateWorkersReplacement" -> LateWorkersReplacement_situation(i.shift, t)

\* Role predicates and cardinalities.
\* Mutant: the cancelled workers are not taken out.
ShiftTeam_workers_select_KeepCancelled(s, w) ==
    w \in assigned[s] \/ w \in Range(calledStandbys[s])

ShiftTeam_workers_select(s, w) ==
    w \in (assigned[s] \ Range(cancelled[s])) \/ w \in Range(calledStandbys[s])

\* Mutant: the team is bounded.
ShiftTeam_workers_cardinality_One(s) == <<0, 1>>

ShiftTeam_workers_cardinality(s) == <<0, Unbounded>>

\* Mutant: the head gear is not looked at.
AccessToWorkPlace_workers_select_AnyGear(s, w) == w \in Range(teamRole[s])

AccessToWorkPlace_workers_select(s, w) == w \in Range(teamRole[s]) /\ hasHeadGear[w]

\* A single number is an upper bound only.
ScalarCardinality(n) == <<0, n>>

AccessToWorkPlace_workers_cardinality(s) == ScalarCardinality(Len(teamRole[s]))

\* Mutant: the cancelled workers are not taken out.
LateWorkersReplacement_lateWorkers_select_Again(s, w) ==
    w \in assigned[s] /\ isAtFactory(w)

LateWorkersReplacement_lateWorkers_select(s, w) ==
    w \in (assigned[s] \ Range(cancelled[s])) /\ isAtFactory(w)

LateWorkersReplacement_lateWorkers_cardinality(s) == <<0, Unbounded>>

\* Mutant: the roster's standbys set is not looked at.
LateWorkersReplacement_standbys_select_Anyone(s, w) ==
    w \notin Range(calledStandbys[s])

LateWorkersReplacement_standbys_select(s, w) == w \in availableStandbys(s)

\* Mutant: the standbys are not bounded by the late workers.
LateWorkersReplacement_standbys_cardinality_Open(s, late) == <<0, Unbounded>>

LateWorkersReplacement_standbys_cardinality(s, late) == <<0, Len(late)>>

\* ----------------------------------------------------------- the engine --
\* Instance expansion: the root rule once per shift, then every child rule
\* once per parent instance.
RuleOrder == <<"ShiftTeam", "AccessToFactory", "AccessToDispenser",
               "AccessToWorkPlace", "LateWorkersReplacement">>

RECURSIVE Expand(_, _)
Expand(r, s) ==
    IF r > Len(RuleOrder) THEN <<>>
    ELSE IF s > shifts THEN Expand(r + 1, 1)
    ELSE <<Inst(RuleOrder[r], s)>> \o Expand(r, s + 1)

getEnsembles == Expand(1, 1)

\* Stable sort, highest priority first.
RECURSIVE InsertByPriority(_, _)
InsertByPriority(i, seq) ==
    IF seq = <<>> THEN <<i>>
    ELSE IF priority(Head(seq)) >= priority(i)
         THEN <<Head(seq)>> \o InsertByPriority(i, Tail(seq))
         ELSE <<i>> \o seq

RECURSIVE SortByPriority(_)
SortByPriority(seq) ==
    IF seq = <<>> THEN <<>>
    ELSE InsertByPriority(seq[Len(seq)], SortByPriority(SubSeq(seq, 1, Len(seq) - 1)))

ActiveInstances(t) == SelectSeq(getEnsembles, LAMBDA i : situation(i, t))

Schedule(t) == SortByPriority(ActiveInstances(t))

\* Greedy bounded selection: the matching candidates in pool order, cut at the
\* upper bound; the role fails below the lower bound.
Resolve(matching, card) ==
    [ok  |-> Len(matching) >= card[1],
     sel |-> SubSeq(matching, 1, Min(Len(matching), card[2]))]

factory == <<"factory", 0>>
dispenser == <<"dispenser", 0>>
workPlace(s) == <<"workplace", s>>

allow(subjects, verb, resource) == {<<w, verb, resource>> : w \in subjects}

Empty == [s \in 1..shifts |-> <<>>]

\* ------------------------------------------------------------ actuation --
ShiftTeam_actuate(s, sel) == [shiftWorkers EXCEPT ![s] = Range(sel)]

AccessToFactory_actuate(s) == allowed \cup allow(Range(teamRole[s]), "enter", factory)

AccessToDispenser_actuate(s) == allowed \cup allow(Range(teamRole[s]), "use", dispenser)

\* Mutant: the grant goes to the whole team, as in the sibling rules.
AccessToWorkPlace_actuate_Team(s, sel) ==
    allowed \cup allow(Range(teamRole[s]), "enter", workPlace(s))

AccessToWorkPlace_actuate(s, sel) == allowed \cup allow(Range(sel), "enter", workPlace(s))

\* Mutant: the shortage is tested one too low.
LateWorkersReplacement_actuate_OffByOne(s, late, sb) ==
    IF Len(sb) + 1 < Len(late)
    THEN [raised |-> TRUE, cancelled |-> cancelled, calledStandbys |-> calledStandbys]
    ELSE [raised |-> FALSE,
          cancelled |-> [cancelled EXCEPT ![s] = @ \o late],
          calledStandbys |-> [calledStandbys EXCEPT ![s] = @ \o sb]]

\* Mutant: the shortage is raised after the roster was written.
LateWorkersReplacement_actuate_RaiseLate(s, late, sb) ==
    [raised |-> Len(sb) < Len(late),
     cancelled |-> [cancelled EXCEPT ![s] = @ \o late],
     calledStandbys |-> [calledStandbys EXCEPT ![s] = @ \o sb]]

\* Mutant: the shortage is not raised.
LateWorkersReplacement_actuate_NoRaise(s, late, sb) ==
    [raised |-> FALSE,
     cancelled |-> [cancelled EXCEPT ![s] = @ \o late],
     calledStandbys |-> [calledStandbys EXCEPT ![s] = @ \o sb]]

LateWorkersReplacement_actuate(s, late, sb) ==
    IF Len(sb) < Len(late)
    THEN [raised |-> TRUE, cancelled |-> cancelled, calledStandbys |-> calledStandbys]
    ELSE [raised |-> FALSE,
          cancelled |-> [cancelled EXCEPT ![s] = @ \o late],
          calledStandbys |-> [calledStandbys EXCEPT ![s] = @ \o sb]]

\* --------------------------------------------------------------- steps ---
Ready(r) == ~aborted /\ queue # <<>> /\ Head(queue).rule = r

Done(ok) ==
    /\ queue' = Tail(queue)
    /\ actuated' = IF ok THEN Append(actuated, Head(queue)) ELSE actuated
    /\ skipped' = IF ok THEN skipped ELSE skipped \cup {Head(queue)}

ShiftTeamStep ==
    /\ Ready("ShiftTeam")
    /\ LET s == Head(queue).shift
           r == Resolve(SelectSeq(Pool, LAMBDA w : ShiftTeam_workers_select(s, w)),
                        ShiftTeam_workers_cardinality(s))
       IN  /\ teamRole' = [teamRole EXCEPT ![s] = r.sel]
           /\ shiftWorkers' = IF r.ok THEN ShiftTeam_actuate(s, r.sel) ELSE shiftWorkers
           /\ Done(r.ok)
    /\ UNCHANGED <<config, cancelled, calledStandbys, wpRole, lateRole, standbyRole,
                   now, allowed, aborted>>

AccessToFactoryStep ==
    /\ Ready("AccessToFactory")
    /\ allowed' = AccessToFactory_actuate(Head(queue).shift)
    /\ Done(TRUE)
    /\ UNCHANGED <<config, roster, roles, now, aborted>>

AccessToDispenserStep ==
    /\ Ready("AccessToDispenser")
    /\ allowed' = AccessToDispenser_actuate(Head(queue).shift)
    /\ Done(TRUE)
    /\ UNCHANGED <<config, roster, roles, now, aborted>>

\* Mutant: the head-gear subset is published as the shift's workers.
AccessToWorkPlaceStep_Publish ==
    /\ Ready("AccessToWorkPlace")
    /\ LET s == Head(queue).shift
           r == Resolve(SelectSeq(Pool, LAMBDA w : AccessToWorkPlace_workers_select(s, w)),
                        AccessToWorkPlace_workers_cardinality(s))
       IN  /\ wpRole' = [wpRole EXCEPT ![s] = r.sel]
           /\ allowed' = IF r.ok THEN AccessToWorkPlace_actuate(s, r.sel) ELSE allowed
           /\ shiftWorkers' = [shiftWorkers EXCEPT ![s] = Range(r.sel)]
           /\ Done(r.ok)
    /\ UNCHANGED <<config, cancelled, calledStandbys, teamRole, lateRole, standbyRole,
                   now, aborted>>

AccessToWorkPlaceStep ==
    /\ Ready("AccessToWorkPlace")
    /\ LET s == Head(queue).shift
           r == Resolve(SelectSeq(Pool, LAMBDA w : AccessToWorkPlace_workers_select(s, w)),
                        AccessToWorkPlace_workers_cardinality(s))
       IN  /\ wpRole' = [wpRole EXCEPT ![s] = r.sel]
           /\ allowed' = IF r.ok THEN AccessToWorkPlace_actuate(s, r.sel) ELSE allowed
           /\ Done(r.ok)
    /\ UNCHANGED <<config, roster, teamRole, lateRole, standbyRole, now, aborted>>

LateWorkersReplacementStep ==
    /\ Ready("LateWorkersReplacement")
    /\ LET s  == Head(queue).shift
           l  == Resolve(SelectSeq(Pool, LAMBDA w : LateWorkersReplacement_lateWorkers_select(s, w)),
                         LateWorkersReplacement_lateWorkers_cardinality(s))
           b  == Resolve(SelectSeq(Pool, LAMBDA w : LateWorkersReplacement_standbys_select(s, w)),
                         LateWorkersReplacement_standbys_cardinality(s, l.sel))
           ok == l.ok /\ b.ok
           a  == LateWorkersReplacement_actuate(s, l.sel, b.sel)
       IN  /\ lateRole' = [lateRole EXCEPT ![s] = l.sel]
           /\ standbyRole' = [standbyRole EXCEPT ![s] = IF l.ok THEN b.sel ELSE @]
           /\ IF ok /\ a.raised
              THEN /\ aborted' = TRUE
                   /\ cancelled' = a.cancelled
                   /\ calledStandbys' = a.calledStandbys
                   /\ UNCHANGED <<queue, actuated, skipped>>
              ELSE /\ aborted' = aborted
                   /\ cancelled' = IF ok THEN a.cancelled ELSE cancelled
                   /\ calledStandbys' = IF ok THEN a.calledStandbys ELSE calledStandbys
                   /\ Done(ok)
    /\ UNCHANGED <<config, shiftWorkers, teamRole, wpRole, now, allowed>>

\* The driver's loop: the next tick starts with fresh instances and no grants.
AdvanceTick ==
    /\ ~aborted
    /\ queue = <<>>
    /\ now + 1 < steps
    /\ now' = now + 1
    /\ queue' = Schedule(now + 1)
    /\ teamRole' = Empty
    /\ wpRole' = Empty
    /\ lateRole' = Empty
    /\ standbyRole' = Empty
    /\ allowed' = {}
    /\ actuated' = <<>>
    /\ skipped' = {}
    /\ UNCHANGED <<config, roster, aborted>>

\* ------------------------------------------------------------ set-up ----
\* prepareSimulation: per shift, `a` workers with a bus arrival time and `b`
\* standbys without one.
AssignedOf(s, a, b) == ((s - 1) * (a + b) + 1) .. ((s - 1) * (a + b) + a)
StandbysOf(s, a, b) == ((s - 1) * (a + b) + a + 1) .. (s * (a + b))

ArrivalChoices(st) == {0, st - cancellationBaseline}

Setup(n, a, b, st, en, last, arrivals, gear) ==
    /\ shifts = n
    /\ assigned = [s \in 1..n |-> AssignedOf(s, a, b)]
    /\ standbys = [s \in 1..n |-> StandbysOf(s, a, b)]
    /\ startTime = [s \in 1..n |-> st]
    /\ endTime = [s \in 1..n |-> en]
    /\ steps = last
    /\ hasHeadGear \in [1..(n * (a + b)) -> gear]
    /\ busArrival \in {f \in [1..(n * (a + b)) -> arrivals \cup {Never}] :
                          \A s \in 1..n : \A w \in StandbysOf(s, a, b) : f[w] = Never}
    /\ now = 0
    /\ queue = Schedule(0)
    /\ cancelled = [s \in 1..n |-> <<>>]
    /\ calledStandbys = [s \in 1..n |-> <<>>]
    /\ shiftWorkers = [s \in 1..n |-> {}]
    /\ teamRole = [s \in 1..n |-> <<>>]
    /\ wpRole = [s \in 1..n |-> <<>>]
    /\ lateRole = [s \in 1..n |-> <<>>]
    /\ standbyRole = [s \in 1..n |-> <<>>]
    /\ allowed = {}
    /\ actuated = <<>>
    /\ skipped = {}
    /\ aborted = FALSE

\* One shift, small rosters, a short shift that the run follows to its end.
InitSmall ==
    \E a \in 1..MaxAssigned, b \in 0..MaxStandbys :
        Setup(1, a, b, ShortStart, ShortStart + ShiftLen, ShortStart + ShiftLen + 1,
              ArrivalChoices(ShortStart), BOOLEAN)

\* Two shifts of one worker and one standby each, followed past every window.
InitTwoShifts ==
    Setup(2, 1, 1, ShortStart + 15, ShortStart + 15 + ShiftLen,
          ShortStart + 15 + ShiftLen + 32,
          {ShortStart + 15 - cancellationBaseline}, BOOLEAN)

\* Scenario A: startTime = 480, endTime = 960, baseline = 10.
InitScenarioA ==
    \E b \in 0..1 :
        Setup(1, 1, b, ScenarioStart, ScenarioEnd, ScenarioEnd + 32,
              ArrivalChoices(ScenarioStart) \cup {ScenarioStart - 5}, {TRUE})

\* Scenario B: a team of five, any of them with head gear, nobody ever late.
InitScenarioB ==
    Setup(1, ScenarioTeam, 0, ShortStart + 15, ShortStart + 15 + ShiftLen,
          ShortStart + 15 + ShiftLen + 32, {}, BOOLEAN)

Init == InitSmall \/ InitTwoShifts \/ InitScenarioA \/ InitScenarioB

Next ==
    \/ LateWorkersReplacementStep
    \/ ShiftTeamStep
    \/ AccessToFactoryStep
    \/ AccessToDispenserStep
    \/ AccessToWorkPlaceStep
    \/ AdvanceTick

Spec == Init /\ [][Next]_vars

\* ------------------------------------------------------------ claims ----
ST(s) == Inst("ShiftTeam", s)
AF(s) == Inst("AccessToFactory", s)
AD(s) == Inst("AccessToDispenser", s)
AW(s) == Inst("AccessToWorkPlace", s)
LR(s) == Inst("LateWorkersReplacement", s)

HasActuated(i) == i \in Range(actuated)

Processed(i) == HasActuated(i) \/ i \in skipped

Before(i, j) ==
    \E m, n \in 1..Len(actuated) : m < n /\ actuated[m] = i /\ actuated[n] = j

\* The engine pass of the current tick ran to its end.
PassComplete == queue = <<>> /\ ~aborted

Granted(verb, resource) == {w \in Workers : <<w, verb, resource>> \in allowed}

HeadGearOf(S) == {w \in S : hasHeadGear[w]}

ScenarioA(s) == startTime[s] = ScenarioStart /\ endTime[s] = ScenarioEnd

\* C1: in Scenario A (startTime 480, endTime 960, baseline 10), once
\* LateWorkersReplacement has run on tick 470, every assigned worker who is
\* still not at the factory has been selected as late and moved to cancelled,
\* with one standby called per late worker, unless the run aborted.
C1_AbsentWorkerReplacedAtBaseline ==
    \A s \in 1..shifts :
        (/\ ScenarioA(s)
         /\ now = startTime[s] - cancellationBaseline
         /\ (Processed(LR(s)) \/ aborted))
        => \A w \in assigned[s] :
              ~isAtFactory(w)
              => \/ aborted
                 \/ /\ w \in Range(cancelled[s])
                    /\ Len(calledStandbys[s]) = Len(cancelled[s])

\* C2: an assigned worker who reached the factory by tick start - baseline is
\* never selected into lateWorkers and never added to cancelled.
C2_OnTimeWorkerNeverLate ==
    \A s \in 1..shifts : \A w \in assigned[s] :
        (busArrival[w] # Never /\ busArrival[w] <= startTime[s] - cancellationBaseline)
        => (w \notin Range(lateRole[s]) /\ w \notin Range(cancelled[s]))

\* C3: once the AccessToWorkPlace instance of a shift has been processed, it
\* has actuated (its role resolved) and "enter workplace" is granted to exactly
\* the team members with head gear: k grants for k head-gear workers out of n,
\* 3 grants for a team of 5 with 3 head-gear workers.
C3_WorkplaceGrantsHeadGearTeam ==
    \A s \in 1..shifts :
        /\ (AccessToWorkPlace_situation(s, now) /\ PassComplete) => Processed(AW(s))
        /\ Processed(AW(s))
           => /\ HasActuated(AW(s))
              /\ Granted("enter", workPlace(s)) = HeadGearOf(Range(teamRole[s]))
              /\ Cardinality(Granted("enter", workPlace(s)))
                    = Cardinality(HeadGearOf(Range(teamRole[s])))
              /\ Cardinality(Granted("enter", workPlace(s))) <= Len(teamRole[s])

C3_Witness ==
    /\ HasActuated(AW(1))
    /\ Len(teamRole[1]) = ScenarioTeam
    /\ Cardinality(HeadGearOf(Range(teamRole[1]))) = ScenarioHeadGear
    /\ Cardinality(Granted("enter", workPlace(1))) = ScenarioHeadGear

\* C4 (as stated): at the end of every completed pass, AccessToDispenser has
\* actuated exactly when start - 15 <= now < end.
C4_DispenserWindowInclusive ==
    \A s \in 1..shifts :
        PassComplete
        => (HasActuated(AD(s)) <=> (startTime[s] - 15 <= now /\ now < endTime[s]))

\* C4 (amended): at the end of every completed pass, AccessToDispenser has
\* actuated exactly when start - 15 < now < end, and then the whole team holds
\* "use dispenser"; when no shift's instance actuated, nobody holds it.
C4_DispenserWindowStrict ==
    /\ \A s \in 1..shifts :
          PassComplete
          => /\ HasActuated(AD(s)) <=> (startTime[s] - 15 < now /\ now < endTime[s])
             /\ HasActuated(AD(s)) => Range(teamRole[s]) \subseteq Granted("use", dispenser)
    /\ (\A s \in 1..shifts : ~HasActuated(AD(s))) => Granted("use", dispenser) = {}

C4_Witness ==
    /\ PassComplete
    /\ now = startTime[1] - 14
    /\ HasActuated(AD(1))
    /\ Granted("use", dispenser) # {}

\* C5: a worker holds "enter workplace" on a tick only if it has head gear and
\* is a member of the team resolved by the shift's ShiftTeam on that tick.
C5_WorkplaceAccessOnlyHeadGearTeam ==
    \A s \in 1..shifts : \A w \in Granted("enter", workPlace(s)) :
        /\ hasHeadGear[w]
        /\ HasActuated(ST(s))
        /\ w \in Range(teamRole[s])
        /\ w \in shiftWorkers[s]

C5_Witness ==
    \E w \in Granted("enter", workPlace(1)) : w \in standbys[1]

\* C6: an access instance actuates only after the ShiftTeam of its shift has
\* actuated on the same tick, and the team it grants to is the one published
\* on this tick.
C6_AccessAfterTeamFormation ==
    \A s \in 1..shifts :
        /\ \A i \in {AF(s), AD(s), AW(s)} : HasActuated(i) => Before(ST(s), i)
        /\ HasActuated(AF(s))
           => /\ Range(teamRole[s]) \subseteq Granted("enter", factory)
              /\ shiftWorkers[s] = Range(teamRole[s])
        /\ HasActuated(AD(s)) => Range(teamRole[s]) \subseteq Granted("use", dispenser)

C6_Witness ==
    /\ HasActuated(AF(2)) /\ HasActuated(AD(2)) /\ HasActuated(AW(2))
    /\ Range(cancelled[2]) # {}
    /\ shiftWorkers[2] = Range(calledStandbys[2])

\* C7: LateWorkersReplacement actuates before the ShiftTeam of its shift, so
\* the team published on the tick of a replacement holds no cancelled worker
\* and every called standby.
C7_ReplacementBeforeTeamFormation ==
    \A s \in 1..shifts :
        /\ (HasActuated(LR(s)) /\ HasActuated(ST(s))) => Before(LR(s), ST(s))
        /\ HasActuated(ST(s))
           => /\ LateWorkersReplacement_situation(s, now) => HasActuated(LR(s))
              /\ shiftWorkers[s] \cap Range(cancelled[s]) = {}
              /\ Range(calledStandbys[s]) \subseteq shiftWorkers[s]
              /\ Range(lateRole[s]) \cap shiftWorkers[s] = {}
              /\ Range(standbyRole[s]) \subseteq shiftWorkers[s]

C7_Witness ==
    /\ HasActuated(ST(1))
    /\ lateRole[1] # <<>>
    /\ standbyRole[1] # <<>>
    /\ Range(standbyRole[1]) \subseteq shiftWorkers[1]

Shortage == \E s \in 1..shifts : Len(standbyRole[s]) < Len(lateRole[s])

\* C8: a LateWorkersReplacement that selected fewer standbys than late workers
\* aborts the run, and an aborted run takes no further step: no instance
\* actuates and the clock does not advance.
C8_ShortageAbortsRun ==
    [][(Shortage' => aborted') /\ (aborted => UNCHANGED vars)]_vars

C8_Witness ==
    /\ aborted
    /\ Shortage
    /\ queue # <<>>
    /\ now + 1 < steps

\* C10: every resolved role holds at least 0 members and at most its upper
\* bound: 99999 for ShiftTeam.workers and lateWorkers, the size of the team for
\* AccessToWorkPlace.workers, the number of late workers for standbys.
C10_RolesWithinCardinality ==
    \A s \in 1..shifts :
        /\ Len(teamRole[s]) <= Unbounded
        /\ Len(lateRole[s]) <= Unbounded
        /\ Len(wpRole[s]) <= Len(teamRole[s])
        /\ Processed(LR(s)) => Len(standbyRole[s]) <= Len(lateRole[s])

C10_Witness ==
    /\ HasActuated(LR(1))
    /\ Len(lateRole[1]) = 1
    /\ Len(standbyRole[1]) = 1
    /\ availableStandbys(1) # {}

\* C11: on every step, the standbys appended to a shift's calledStandbys are
\* at most as many as the late workers selected for that shift on the tick,
\* and the workers appended to cancelled are exactly those late workers.
C11_CalledAtMostLate ==
    [][\A s \in 1..shifts :
          /\ Len(calledStandbys'[s]) - Len(calledStandbys[s]) <= Len(lateRole'[s])
          /\ Len(calledStandbys'[s]) >= Len(calledStandbys[s])
          /\ cancelled'[s] # cancelled[s] => cancelled'[s] = cancelled[s] \o lateRole'[s]]_vars

C11_Witness ==
    /\ HasActuated(LR(1))
    /\ Len(lateRole[1]) = 2
    /\ calledStandbys[1] = standbyRole[1]
    /\ Len(standbyRole[1]) = 2

NoDuplicates(seq) == Cardinality(Range(seq)) = Len(seq)

\* C12: every worker in a roster's calledStandbys is one of its standbys.
C12_CalledStandbysAreStandbys ==
    \A s \in 1..shifts : Range(calledStandbys[s]) \subseteq standbys[s]

C12_Witness ==
    /\ Len(calledStandbys[1]) = 2
    /\ Len(standbyRole[1]) = 1

\* C13: no worker appears twice in a roster's cancelled collection, over all
\* the ticks on which LateWorkersReplacement runs, and only assigned workers
\* are cancelled.
C13_CancelledAtMostOnce ==
    \A s \in 1..shifts :
        /\ NoDuplicates(cancelled[s])
        /\ Range(cancelled[s]) \subseteq assigned[s]

C13_Witness ==
    /\ HasActuated(LR(1))
    /\ lateRole[1] = <<>>
    /\ cancelled[1] # <<>>
    /\ \E w \in Range(cancelled[1]) : isAtFactory(w)

Acting(r) == queue # <<>> /\ Head(queue).rule = r

\* C14: a step of an access rule leaves assigned, cancelled, standbys,
\* calledStandbys and the published workers unchanged; a step of ShiftTeam
\* changes only the published workers; a step of LateWorkersReplacement leaves
\* assigned, standbys and the published workers unchanged; the driver's step to
\* the next tick changes none of them.
C14_RosterWrittenByOwner ==
    [][/\ (Acting("AccessToFactory") \/ Acting("AccessToDispenser")
              \/ Acting("AccessToWorkPlace") \/ queue = <<>>)
          => UNCHANGED <<assigned, standbys, cancelled, calledStandbys, shiftWorkers>>
       /\ Acting("ShiftTeam")
          => UNCHANGED <<assigned, standbys, cancelled, calledStandbys>>
       /\ Acting("LateWorkersReplacement")
          => UNCHANGED <<assigned, standbys, shiftWorkers>>]_vars

C14_Witness ==
    /\ HasActuated(AW(1))
    /\ wpRole[1] # <<>>
    /\ Range(wpRole[1]) # shiftWorkers[1]
    /\ cancelled[1] # <<>>

\* C16: at the end of every completed pass, AccessToFactory has actuated
\* exactly when start - 30 < now < end + 30, and then the whole team holds
\* "enter factory"; it never actuates outside that window, and when no shift's
\* instance actuated nobody holds the grant.
C16_FactoryWindowStrict ==
    /\ \A s \in 1..shifts :
          /\ PassComplete
             => (HasActuated(AF(s))
                    <=> (startTime[s] - 30 < now /\ now < endTime[s] + 30))
          /\ HasActuated(AF(s))
             => /\ startTime[s] - 30 < now /\ now < endTime[s] + 30
                /\ Range(teamRole[s]) \subseteq Granted("enter", factory)
    /\ (\A s \in 1..shifts : ~HasActuated(AF(s))) => Granted("enter", factory) = {}

C16_Witness ==
    /\ PassComplete
    /\ now = endTime[1] + 29
    /\ HasActuated(AF(1))
    /\ Granted("enter", factory) # {}

\* C17: once ShiftTeam has actuated on a tick, the workers published on the
\* roster are exactly (assigned minus cancelled) plus calledStandbys.
C17_TeamIsAssignedMinusCancelledPlusCalled ==
    \A s \in 1..shifts :
        HasActuated(ST(s))
        => /\ shiftWorkers[s]
                 = (assigned[s] \ Range(cancelled[s])) \cup Range(calledStandbys[s])
           /\ Range(teamRole[s]) = shiftWorkers[s]

C17_Witness ==
    /\ HasActuated(ST(1))
    /\ cancelled[1] # <<>>
    /\ assigned[1] \ Range(cancelled[1]) # {}
    /\ availableStandbys(1) # {}
    /\ Cardinality(shiftWorkers[1]) = 2

\* C18: a cancelled worker holds no grant of any kind, on the tick of its
\* cancellation and on every later tick.
C18_NoGrantAfterCancellation ==
    \A s \in 1..shifts : \A w \in Range(cancelled[s]) :
        /\ w \notin Granted("enter", factory)
        /\ w \notin Granted("use", dispenser)
        /\ w \notin Granted("enter", workPlace(s))

C18_Witness ==
    /\ PassComplete
    /\ cancelled[1] # <<>>
    /\ lateRole[1] = <<>>
    /\ HasActuated(AF(1)) /\ HasActuated(AD(1)) /\ HasActuated(AW(1))
    /\ Granted("enter", workPlace(1)) # {}

\* C19: as many standbys are called as workers are cancelled, no standby is
\* called twice, and the team keeps the size of the assigned set.
C19_StaffingConserved ==
    \A s \in 1..shifts :
        /\ Len(calledStandbys[s]) = Len(cancelled[s])
        /\ NoDuplicates(calledStandbys[s])
        /\ Cardinality((assigned[s] \ Range(cancelled[s])) \cup Range(calledStandbys[s]))
              = Cardinality(assigned[s])
        /\ HasActuated(LR(s)) => Len(standbyRole[s]) = Len(lateRole[s])

C19_Witness ==
    /\ PassComplete
    /\ Len(cancelled[1]) = 2
    /\ Len(lateRole[1]) = 1

\* C20: the step on which LateWorkersReplacement raises the shortage changes
\* neither cancelled nor calledStandbys.
C20_ShortageLeavesRosterUntouched ==
    [][(aborted' /\ ~aborted) => UNCHANGED <<cancelled, calledStandbys>>]_vars

C20_Witness ==
    /\ aborted
    /\ Len(lateRole[1]) = 2
    /\ Len(standbyRole[1]) = 1
    /\ cancelled[1] = <<>>
    /\ calledStandbys[1] = <<>>

====
